---- MODULE Spec2Model ----
(***************************************************************************)
(* Expense splitter: the balance calculator, the debt simplifier and the   *)
(* GroupService entry points that call them.                               *)
(*                                                                         *)
(* Money.  The code computes with binary floats and rounds to 2 decimals.  *)
(* The model computes exactly: an expense amount and every rounded figure  *)
(* (total_paid, total_owed, net_balance, a settlement amount) is a whole   *)
(* number of cents; an unrounded accumulator is the sequence of the        *)
(* addends that were added to it, each in units of 1/Scale cent, so that a *)
(* share amount / k is exact for every k the bounds allow.  What the float *)
(* representation decides and exact arithmetic cannot is kept as an        *)
(* oracle that is resolved the first time it is needed and never changes:  *)
(*   fpTie    which way round(x, 2) goes when x is exactly half a cent     *)
(*            (round(0.005, 2) = 0.01 but round(0.015, 2) = 0.01);         *)
(*   fpNoise  the sign of the representation error of a remaining amount   *)
(*            after subtractions (0.07 - 0.06 > 0.01 but                   *)
(*            0.03 - 0.02 < 0.01).                                         *)
(* Both are keyed by the computation that produced the float, so the same  *)
(* computation always gives the same answer, as it does in the code.       *)
(***************************************************************************)
EXTENDS Integers, Sequences, FiniteSets, TLC

VARIABLES
    groups,        \* GroupService._groups: group id -> Group
    drawn,         \* the ids uuid4 has produced so far
    fpTie,         \* resolved rounding ties: set of <<addends, roundsUp>>
    fpNoise,       \* resolved representation errors: set of <<path, sign>>
    pc,            \* position of the simplify_debts call in flight
    call,          \* the call in flight: [op, gid, iterations of the loop]
    member_map,    \* simplify_debts: member id -> Member
    cred_amounts,  \* _generate_settlements: remaining credit, in dict order
    debt_amounts,  \* _generate_settlements: remaining debt, in dict order
    settlements,   \* _generate_settlements: settlements emitted so far
    ret,           \* what the last completed call returned
    prev,          \* the result of the call before, when it was the same call
    again,         \* "first", or how a repeated call's result compares
    tasks          \* requests running at the same time: thread -> its locals

vars == <<groups, drawn, fpTie, fpNoise, pc, call, member_map, cred_amounts,
          debt_amounts, settlements, ret, prev, again, tasks>>

(***************************************************************************)
(* Bounds of the model.                                                    *)
(***************************************************************************)
MaxMembers == 3        \* members of a well-formed group
MaxExpenses == 2       \* expenses of a well-formed group
MaxAmount == 3         \* largest expense amount, in cents
WideMembers == 4       \* members of a group of SpecWide (one expense at most)
LooseMembers == 2      \* members of a group of SpecLoose
LooseParticipants == 2 \* longest participant list of SpecLoose
ServiceIds == 2        \* members, and expenses, created under SpecService
ServiceParticipants == 2 \* longest participant list of a request

GroupIds == {"g1"}
Max2(a, b) == IF a >= b THEN a ELSE b

\* mutant: the larger of the two amounts is settled
MinIsMax(a, b) == IF a >= b THEN a ELSE b

Min2(a, b) == IF a <= b THEN a ELSE b

\* a member id that belongs to no member of any group drawn
UnknownId == Max2(Max2(MaxMembers, WideMembers), ServiceIds) + 1

RECURSIVE Gcd(_, _)
Gcd(a, b) == IF b = 0 THEN a ELSE Gcd(b, a % b)

RECURSIVE LcmUpTo(_)
LcmUpTo(n) == IF n <= 1 THEN 1 ELSE LET l == LcmUpTo(n - 1) IN (l * n) \div Gcd(l, n)

\* the longest participant list any specification draws
MaxListLen ==
    Max2(Max2(MaxMembers, WideMembers), Max2(LooseParticipants, ServiceParticipants))

\* units per cent: every amount / k with k <= MaxListLen is a whole number
\* of units, and half a cent is a whole number of units
Scale == 2 * LcmUpTo(MaxListLen)

RECURSIVE SumSeq(_)
SumSeq(s) == IF s = <<>> THEN 0 ELSE Head(s) + SumSeq(Tail(s))

(***************************************************************************)
(* schemas.py: the records the core reads and returns.                     *)
(***************************************************************************)
Member(id, name) == [id |-> id, name |-> name]

Expense(id, amount, payer_id, participant_ids) ==
    [id |-> id, amount |-> amount, payer_id |-> payer_id,
     participant_ids |-> participant_ids]

Group(id, name, members, expenses) ==
    [id |-> id, name |-> name, members |-> members, expenses |-> expenses]

Balance(member, paid, owed, net) ==
    [member_id |-> member.id, member_name |-> member.name,
     total_paid |-> paid, total_owed |-> owed, net_balance |-> net]

\* mutant: payer and receiver of the settlement are swapped
SettlementSwapped(from, to, amount) ==
    [from_member_id |-> to.id, from_member_name |-> to.name,
     to_member_id |-> from.id, to_member_name |-> from.name, amount |-> amount]

\* mutant: the receiver's fields are filled from the payer
SettlementToPayer(from, to, amount) ==
    [from_member_id |-> from.id, from_member_name |-> from.name,
     to_member_id |-> from.id, to_member_name |-> from.name, amount |-> amount]

Settlement(from, to, amount) ==
    [from_member_id |-> from.id, from_member_name |-> from.name,
     to_member_id |-> to.id, to_member_name |-> to.name, amount |-> amount]

\* mutant: the plan lists the newest settlement first
SettlementPlanNewestFirst(group, setts) ==
    [group_id |-> group.id, group_name |-> group.name,
     settlements |-> [i \in 1..Len(setts) |-> setts[Len(setts) + 1 - i]],
     total_transactions |-> Len(setts)]

\* mutant: total_transactions counts the expenses, not the settlements
SettlementPlanCountsExpenses(group, setts) ==
    [group_id |-> group.id, group_name |-> group.name,
     settlements |-> setts, total_transactions |-> Len(group.expenses)]

SettlementPlan(group, setts) ==
    [group_id |-> group.id, group_name |-> group.name,
     settlements |-> setts, total_transactions |-> Len(setts)]

MemberIds(group) == {group.members[i].id : i \in 1..Len(group.members)}

(***************************************************************************)
(* balance_calculator.py                                                   *)
(***************************************************************************)
\* mutant: an expense that lists an unknown participant debits nobody
RECURSIVE DebitParticipantsAllOrNothing(_, _, _)
DebitParticipantsAllOrNothing(participant_ids, share, total_owed) ==
    IF \E j \in 1..Len(participant_ids) : participant_ids[j] \notin DOMAIN total_owed
    THEN total_owed
    ELSE IF participant_ids = <<>> THEN total_owed
    ELSE DebitParticipantsAllOrNothing(
             Tail(participant_ids), share,
             [total_owed EXCEPT ![Head(participant_ids)] = Append(@, share)])

\* mutant: a participant listed more than once is debited once
RECURSIVE DebitParticipantsOnce(_, _, _)
DebitParticipantsOnce(participant_ids, share, total_owed) ==
    IF participant_ids = <<>> THEN total_owed
    ELSE LET p == Head(participant_ids)
             later == \E j \in 2..Len(participant_ids) : participant_ids[j] = p
             owed1 == IF p \in DOMAIN total_owed /\ ~later
                      THEN [total_owed EXCEPT ![p] = Append(@, share)]
                      ELSE total_owed
         IN DebitParticipantsOnce(Tail(participant_ids), share, owed1)

\* total_owed[participant_id] += share_per_person, for each participant in
\* list order, known ids only
RECURSIVE DebitParticipants(_, _, _)
DebitParticipants(participant_ids, share, total_owed) ==
    IF participant_ids = <<>> THEN total_owed
    ELSE LET p == Head(participant_ids)
             owed1 == IF p \in DOMAIN total_owed
                      THEN [total_owed EXCEPT ![p] = Append(@, share)]
                      ELSE total_owed
         IN DebitParticipants(Tail(participant_ids), share, owed1)

\* mutant: the guard against an empty participant list is missing
ReturnsEarlyNever(expense) == FALSE

\* if num_participants == 0: return
ReturnsEarly(expense) == Len(expense.participant_ids) = 0

\* share_per_person = expense.amount / num_participants, in units; the
\* division raises ZeroDivisionError when there is no participant
Share(amount, num_participants) ==
    IF num_participants = 0 THEN 0
    ELSE (amount * Scale) \div num_participants

\* _process_expense raises on this expense
ExpenseRaises(expense) ==
    ~ReturnsEarly(expense) /\ Len(expense.participant_ids) = 0

\* mutant: the amount is split among all members of the group instead of
\* the expense's participants
ProcessExpenseSplitAmongAll(expense, acc) ==
    LET paid1 == IF expense.payer_id \in DOMAIN acc.total_paid
                 THEN [acc.total_paid EXCEPT ![expense.payer_id] =
                          Append(@, expense.amount * Scale)]
                 ELSE acc.total_paid
        everyone == DOMAIN acc.total_owed
        share == (expense.amount * Scale) \div Cardinality(everyone)
    IN [total_paid |-> paid1,
        total_owed |-> [m \in everyone |-> Append(acc.total_owed[m], share)]]

\* mutant: the test for an empty participant list comes first, before the
\* payer is credited
ProcessExpenseGuardFirst(expense, acc) ==
    IF Len(expense.participant_ids) = 0 THEN acc
    ELSE [total_paid |->
              IF expense.payer_id \in DOMAIN acc.total_paid
              THEN [acc.total_paid EXCEPT ![expense.payer_id] =
                       Append(@, expense.amount * Scale)]
              ELSE acc.total_paid,
          total_owed |->
              DebitParticipants(expense.participant_ids,
                                (expense.amount * Scale)
                                    \div Len(expense.participant_ids),
                                acc.total_owed)]

\* _process_expense: acc is [total_paid, total_owed], member id -> addends
ProcessExpense(expense, acc) ==
    LET paid1 == IF expense.payer_id \in DOMAIN acc.total_paid
                 THEN [acc.total_paid EXCEPT ![expense.payer_id] =
                          Append(@, expense.amount * Scale)]
                 ELSE acc.total_paid
        num_participants == Len(expense.participant_ids)
    IN IF ReturnsEarly(expense)
       THEN [total_paid |-> paid1, total_owed |-> acc.total_owed]
       ELSE LET share_per_person == Share(expense.amount, num_participants)
            IN [total_paid |-> paid1,
                total_owed |-> DebitParticipants(expense.participant_ids,
                                                 share_per_person, acc.total_owed)]

RECURSIVE ProcessExpenses(_, _)
ProcessExpenses(expenses, acc) ==
    IF expenses = <<>> THEN acc
    ELSE ProcessExpenses(Tail(expenses), ProcessExpense(Head(expenses), acc))

\* the accumulators after the loop over group.expenses
Totals(group) ==
    ProcessExpenses(group.expenses,
                    [total_paid |-> [m \in MemberIds(group) |-> <<>>],
                     total_owed |-> [m \in MemberIds(group) |-> <<>>]])

\* calculate_balances raises instead of returning (sequential calls: every
\* member id read at lines 44-45 is a key of the accumulators)
BalancesRaise(group) ==
    /\ Len(group.members) > 0
    /\ \E i \in 1..Len(group.expenses) : ExpenseRaises(group.expenses[i])

\* mutant: the calculator consumes the expense list it walks through
DrainedExpenses(group) == [group EXCEPT !.expenses = <<>>]

\* the group object after a call of the core: no statement of
\* balance_calculator.py or debt_simplifier.py assigns to it or to a field
Untouched(group) == group

IsTie(addends) == (2 * SumSeq(addends)) % (2 * Scale) = Scale

\* round(x, 2) of a non-negative accumulator, in cents
Round2(addends, tie) ==
    LET x == SumSeq(addends)
        q == x \div Scale
        r == x % Scale
    IN IF 2 * r < Scale THEN q
       ELSE IF 2 * r > Scale THEN q + 1
       ELSE IF <<addends, TRUE>> \in tie THEN q + 1 ELSE q

\* the accumulators of the group whose rounding the floats decide
TiePaths(group) ==
    LET t == Totals(group)
    IN {t.total_owed[m] : m \in {x \in MemberIds(group) : IsTie(t.total_owed[x])}}
       \cup {t.total_paid[m] : m \in {x \in MemberIds(group) : IsTie(t.total_paid[x])}}

\* mutant: the balances are built in reverse member order
calculate_balances_reversed(group, tie) ==
    IF Len(group.members) = 0 THEN <<>>
    ELSE LET t == Totals(group)
             n == Len(group.members)
         IN [i \in 1..n |->
                LET member == group.members[n + 1 - i]
                    paid == Round2(t.total_paid[member.id], tie)
                    owed == Round2(t.total_owed[member.id], tie)
                IN Balance(member, paid, owed, paid - owed)]

calculate_balances(group, tie) ==
    IF Len(group.members) = 0 THEN <<>>
    ELSE LET t == Totals(group)
         IN [i \in 1..Len(group.members) |->
                LET member == group.members[i]
                    paid == Round2(t.total_paid[member.id], tie)
                    owed == Round2(t.total_owed[member.id], tie)
                    net == paid - owed
                IN Balance(member, paid, owed, net)]

\* get_net_balances: member id -> net balance, in member order
get_net_balances(group, tie) ==
    LET balances == calculate_balances(group, tie)
    IN [i \in 1..Len(balances) |->
           <<balances[i].member_id, balances[i].net_balance>>]

(***************************************************************************)
(* debt_simplifier.py                                                      *)
(*                                                                         *)
(* A dict is the sequence of its entries in insertion order.  An entry of  *)
(* cred_amounts or debt_amounts is [id, amount, path]: amount is the       *)
(* remaining amount in cents and path the float computation behind it,     *)
(* <<initial amount, subtracted amount, ...>>.                             *)
(***************************************************************************)
\* mutant: the settlement list outlives the call (an attribute of the
\* simplifier instead of a local list), so a second call appends to it
StaleSettlements ==
    IF ret.op = "simplify_debts" THEN ret.val.settlements
    ELSE IF ret.op = "get_settlements" /\ ret.val # <<>> THEN ret.val[1].settlements
    ELSE <<>>

\* settlements = []
StartSettlements == <<>>

\* mutant: every settlement is emitted, however small
SignificantAlways(settlement_amount) == TRUE

\* if settlement_amount > 0.01
Significant(settlement_amount) == settlement_amount > 1

Entry(id, amount) == [id |-> id, amount |-> amount, path |-> <<amount>>]

\* creditors: the members with balance > 0.01, in net_balances order
RECURSIVE Creditors(_)
Creditors(net_balances) ==
    IF net_balances = <<>> THEN <<>>
    ELSE LET member_id == Head(net_balances)[1]
             balance == Head(net_balances)[2]
         IN IF balance > 1
            THEN <<Entry(member_id, balance)>> \o Creditors(Tail(net_balances))
            ELSE Creditors(Tail(net_balances))

\* mutant: every negative balance makes a debtor (< 0 instead of < -0.01)
RECURSIVE DebtorsAnyNegative(_)
DebtorsAnyNegative(net_balances) ==
    IF net_balances = <<>> THEN <<>>
    ELSE LET member_id == Head(net_balances)[1]
             balance == Head(net_balances)[2]
         IN IF balance < 0
            THEN <<Entry(member_id, 0 - balance)>>
                 \o DebtorsAnyNegative(Tail(net_balances))
            ELSE DebtorsAnyNegative(Tail(net_balances))

\* debtors: the members with balance < -0.01, with abs(balance)
RECURSIVE Debtors(_)
Debtors(net_balances) ==
    IF net_balances = <<>> THEN <<>>
    ELSE LET member_id == Head(net_balances)[1]
             balance == Head(net_balances)[2]
         IN IF balance > 1 THEN Debtors(Tail(net_balances))
            ELSE IF balance < -1
            THEN <<Entry(member_id, 0 - balance)>> \o Debtors(Tail(net_balances))
            ELSE Debtors(Tail(net_balances))

\* x placed behind every entry of a descending list that is not smaller
RECURSIVE InsertDesc(_, _)
InsertDesc(x, sorted) ==
    IF sorted = <<>> THEN <<x>>
    ELSE IF Head(sorted).amount >= x.amount
         THEN <<Head(sorted)>> \o InsertDesc(x, Tail(sorted))
         ELSE <<x>> \o sorted

\* sorted(list, key=amount, reverse=True): stable, equal amounts keep order
RECURSIVE SortedDesc(_)
SortedDesc(list) ==
    IF list = <<>> THEN <<>>
    ELSE InsertDesc(list[Len(list)], SortedDesc(SubSeq(list, 1, Len(list) - 1)))

\* the sign of (float - exact) of an entry's remaining amount
Sign(e, noise) ==
    IF Len(e.path) = 1 THEN 0
    ELSE IF <<e.path, 1>> \in noise THEN 1
    ELSE IF <<e.path, -1>> \in noise THEN -1
    ELSE 0

\* mutant: >= instead of >, so that the last of equal entries wins
GreaterOrEqual(e1, e2, noise) ==
    \/ e1.amount > e2.amount
    \/ e1.amount = e2.amount /\ Sign(e1, noise) >= Sign(e2, noise)

\* e1's float amount > e2's float amount
Greater(e1, e2, noise) ==
    \/ e1.amount > e2.amount
    \/ e1.amount = e2.amount /\ Sign(e1, noise) > Sign(e2, noise)

\* max(dict.items(), key=amount): the first entry no later one exceeds
RECURSIVE MaxFrom(_, _, _)
MaxFrom(rest, best, noise) ==
    IF rest = <<>> THEN best
    ELSE MaxFrom(Tail(rest),
                 IF Greater(Head(rest), best, noise) THEN Head(rest) ELSE best,
                 noise)

\* mutant: min instead of max
MinEntry(dict, noise) ==
    dict[CHOOSE i \in 1..Len(dict) :
             /\ \A k \in 1..Len(dict) : dict[i].amount <= dict[k].amount
             /\ \A k \in 1..(i - 1) : dict[k].amount > dict[i].amount]

MaxEntry(dict, noise) == MaxFrom(Tail(dict), Head(dict), noise)

\* mutant: the remaining amounts are not updated
SubtractNothing(dict, id, settlement_amount) == dict

\* dict[id] -= settlement_amount
Subtract(dict, id, settlement_amount) ==
    [i \in 1..Len(dict) |->
        IF dict[i].id = id
        THEN [dict[i] EXCEPT !.amount = @ - settlement_amount,
                             !.path = Append(@, settlement_amount)]
        ELSE dict[i]]

EntryOf(dict, id) == dict[CHOOSE i \in 1..Len(dict) : dict[i].id = id]

\* mutant: the settled party is not removed
DeleteNothing(dict, id) == dict

\* del dict[id]
Delete(dict, id) == SelectSeq(dict, LAMBDA e : e.id # id)

\* mutant: a party is dropped only when its remaining amount is negative
SettledBelowZero(e, noise) == e.amount < 0

\* dict[id] <= 0.01
Settled(e, noise) ==
    \/ e.amount <= 0
    \/ e.amount = 1 /\ Sign(e, noise) <= 0

\* the entries whose representation error the loop can observe: a remaining
\* amount of exactly one cent, or one that ties with another entry
NoisePaths(dict) ==
    {dict[i].path : i \in {j \in 1..Len(dict) :
        /\ Len(dict[j].path) > 1
        /\ \/ dict[j].amount = 1
           \/ /\ dict[j].amount > 1
              /\ \E k \in 1..Len(dict) : k # j /\ dict[k].amount = dict[j].amount}}

SignsOf(path) == IF SumSeq(Tail(path)) = Head(path) - 1 THEN {-1, 1} ELSE {-1, 0, 1}

(***************************************************************************)
(* The groups the specifications start from.                               *)
(***************************************************************************)
NameOf(i) == IF i % 2 = 1 THEN "Alice" ELSE "Bob"

\* n members as add_member leaves them: fresh ids in creation order
MemberList(n) == [i \in 1..n |-> Member(i, NameOf(i))]

RECURSIVE AscSeq(_)
AscSeq(S) ==
    IF S = {} THEN <<>>
    ELSE LET m == CHOOSE x \in S : \A y \in S : x <= y
         IN <<m>> \o AscSeq(S \ {m})

IsAscending(s) == \A i \in 1..(Len(s) - 1) : s[i] <= s[i + 1]

SeqsUpTo(S, n) == UNION {[1..k -> S] : k \in 0..n}

\* an expense add_expense accepted: the payer and the participants are
\* members, the amount is whole cents > 0; here the participants are distinct
WellFormedExpenses(n) ==
    {[amount |-> a, payer_id |-> p, participant_ids |-> AscSeq(S)] :
        a \in 1..MaxAmount, p \in 1..n, S \in (SUBSET (1..n)) \ {{}}}

\* any expense a Group object can hold: unknown payer or participants, a
\* participant listed twice, no participant at all
LooseExpenses(n) ==
    {[amount |-> a, payer_id |-> p, participant_ids |-> ps] :
        a \in 1..MaxAmount, p \in (1..n) \cup {UnknownId},
        ps \in {s \in SeqsUpTo((1..n) \cup {UnknownId}, LooseParticipants) :
                   IsAscending(s)}}

\* the expenses of a list get fresh ids in creation order
WithIds(list) ==
    [i \in 1..Len(list) |->
        Expense(i, list[i].amount, list[i].payer_id, list[i].participant_ids)]

\* a group of n members holding the expenses of list
GroupOf(n, list) == Group("g1", "Trip", MemberList(n), WithIds(list))

NoRet == [op |-> "none"]
NoCall == [op |-> "none"]

\* the threads of the worker pool that the concurrent specifications use
TaskIds == {"t1", "t2"}
IdleTasks == [t \in TaskIds |-> [op |-> "none"]]

InitWith(group) ==
    /\ groups = ("g1" :> group)
    /\ drawn = [groups |-> {"g1"}, members |-> Len(group.members),
                expenses |-> Len(group.expenses)]
    /\ fpTie = {}
    /\ fpNoise = {}
    /\ pc = "idle"
    /\ call = NoCall
    /\ member_map = <<>>
    /\ cred_amounts = <<>>
    /\ debt_amounts = <<>>
    /\ settlements = <<>>
    /\ ret = NoRet
    /\ prev = NoRet
    /\ again = "none"
    /\ tasks = IdleTasks

\* a well-formed group: what create_group, add_member and add_expense build
Init ==
    \E n \in 0..MaxMembers : \E k \in 0..MaxExpenses :
        \E list \in [1..k -> WellFormedExpenses(n)] : InitWith(GroupOf(n, list))

\* a well-formed group of more members and one expense at most
InitWide ==
    \E n \in 0..WideMembers : \E k \in 0..1 :
        \E list \in [1..k -> WellFormedExpenses(n)] : InitWith(GroupOf(n, list))

\* the expenses of InitTie: 0.02 or 0.06, paid by any member for two others
TieAmounts == {2, 6}
TieExpenses ==
    {[amount |-> a, payer_id |-> p, participant_ids |-> AscSeq(S)] :
        a \in TieAmounts, p \in 1..WideMembers,
        S \in {T \in SUBSET (1..WideMembers) : Cardinality(T) = 2}}

\* a well-formed group of four members and two such expenses: enough for
\* two creditors and two debtors
InitTie ==
    \E list \in [1..2 -> TieExpenses] : InitWith(GroupOf(WideMembers, list))

\* any Group object, as the tests of the core build them
InitLoose ==
    \E n \in 0..LooseMembers : \E k \in 0..MaxExpenses :
        \E list \in [1..k -> LooseExpenses(n)] : InitWith(GroupOf(n, list))

(***************************************************************************)
(* Calls.                                                                  *)
(***************************************************************************)
\* Optional[...] of the GroupService methods
None == <<>>
Some(x) == <<x>>

IsService(op) == op \in {"get_balances", "get_settlements"}
Wrap(op, x) == IF IsService(op) THEN Some(x) ELSE x

\* the call returns val; last is the result of the call before it
Return(op, gid, val, last) ==
    /\ ret' = [op |-> op, gid |-> gid, val |-> val]
    /\ prev' = NoRet
    /\ again' = IF last.op = op /\ last.gid = gid
                THEN (IF last.val = val THEN "same" ELSE "differs")
                ELSE "first"

\* the rounding ties of the group that are not resolved yet get resolved
ResolveTies(group) ==
    LET need == {p \in TiePaths(group) :
                    <<p, TRUE>> \notin fpTie /\ <<p, FALSE>> \notin fpTie}
    IN \E up \in SUBSET need :
           fpTie' = fpTie \cup {<<p, p \in up>> : p \in need}

LoopVars == <<pc, call, member_map, cred_amounts, debt_amounts, settlements>>

\* the call raises: the exception leaves the core and nothing is returned
Raise ==
    /\ pc' = "error"
    /\ UNCHANGED <<groups, drawn, fpTie, fpNoise, call, member_map,
                   cred_amounts, debt_amounts, settlements, ret, prev, again,
                   tasks>>

\* BalanceCalculator.calculate_balances(group) and GroupService.get_balances
Balances(op, gid) ==
    /\ pc = "idle"
    /\ gid \in DOMAIN groups
    /\ IF BalancesRaise(groups[gid])
       THEN Raise
       ELSE /\ ResolveTies(groups[gid])
            /\ Return(op, gid, Wrap(op, calculate_balances(groups[gid], fpTie')), ret)
            /\ groups' = [groups EXCEPT ![gid] = Untouched(@)]
            /\ UNCHANGED <<drawn, fpNoise, LoopVars, tasks>>

CalculateBalances(gid) == Balances("calculate_balances", gid)

\* BalanceCalculator.get_net_balances(group)
GetNetBalances(gid) ==
    /\ pc = "idle"
    /\ gid \in DOMAIN groups
    /\ IF BalancesRaise(groups[gid])
       THEN Raise
       ELSE /\ ResolveTies(groups[gid])
            /\ Return("get_net_balances", gid,
                      get_net_balances(groups[gid], fpTie'), ret)
            /\ groups' = [groups EXCEPT ![gid] = Untouched(@)]
            /\ UNCHANGED <<drawn, fpNoise, LoopVars, tasks>>

\* mutant: the lookup stores an empty group under the unknown id
\* (self._groups.setdefault instead of self._groups.get)
NotFoundSetDefault(op, gid) ==
    /\ pc = "idle"
    /\ gid \notin DOMAIN groups
    /\ Return(op, gid, <<>>, ret)
    /\ groups' = (gid :> [id |-> gid, name |-> "", members |-> <<>>,
                          expenses |-> <<>>]) @@ groups
    /\ UNCHANGED <<drawn, fpTie, fpNoise, pc, call, member_map, cred_amounts,
                   debt_amounts, settlements, tasks>>

\* the group is not in storage: the method returns None
NotFound(op, gid) ==
    /\ pc = "idle"
    /\ gid \notin DOMAIN groups
    /\ Return(op, gid, None, ret)
    /\ UNCHANGED <<groups, drawn, fpTie, fpNoise, LoopVars, tasks>>

\* GroupService.get_balances(group_id)
GetBalances(gid) ==
    IF gid \in DOMAIN groups THEN Balances("get_balances", gid)
    ELSE NotFound("get_balances", gid)

\* member_map = {member.id: member for member in group.members}
MemberMap(group) ==
    [id \in MemberIds(group) |->
        group.members[CHOOSE i \in 1..Len(group.members) :
            /\ group.members[i].id = id
            /\ \A j \in (i + 1)..Len(group.members) : group.members[j].id # id]]

\* simplify_debts up to the first test of the while loop
Simplify(op, gid) ==
    /\ pc = "idle"
    /\ gid \in DOMAIN groups
    /\ LET group == groups[gid]
       IN IF Len(group.members) = 0 \/ Len(group.expenses) = 0
          THEN /\ Return(op, gid, Wrap(op, SettlementPlan(group, <<>>)), ret)
               /\ groups' = [groups EXCEPT ![gid] = Untouched(@)]
               /\ UNCHANGED <<drawn, fpTie, fpNoise, LoopVars, tasks>>
          ELSE IF BalancesRaise(group)
          THEN Raise
          ELSE /\ ResolveTies(group)
               /\ LET net_balances == get_net_balances(group, fpTie')
                  IN /\ cred_amounts' = SortedDesc(Creditors(net_balances))
                     /\ debt_amounts' = SortedDesc(Debtors(net_balances))
               /\ member_map' = MemberMap(group)
               /\ settlements' = StartSettlements
               /\ pc' = "loop"
               /\ call' = [op |-> op, gid |-> gid, iterations |-> 0]
               /\ prev' = IF ret.op = op /\ ret.gid = gid THEN ret ELSE NoRet
               /\ ret' = NoRet
               /\ again' = "none"
               /\ groups' = [groups EXCEPT ![gid] = Untouched(@)]
               /\ UNCHANGED <<drawn, fpNoise, tasks>>

\* DebtSimplifier.simplify_debts(group)
SimplifyDebts(gid) == Simplify("simplify_debts", gid)

\* GroupService.get_settlements(group_id)
GetSettlements(gid) ==
    IF gid \in DOMAIN groups THEN Simplify("get_settlements", gid)
    ELSE NotFound("get_settlements", gid)

\* one iteration of the while loop of _generate_settlements
SettleStep ==
    /\ pc = "loop"
    /\ cred_amounts # <<>>
    /\ debt_amounts # <<>>
    /\ LET max_creditor == MaxEntry(cred_amounts, fpNoise)
           max_debtor == MaxEntry(debt_amounts, fpNoise)
           creditor_id == max_creditor.id
           debtor_id == max_debtor.id
           settlement_amount == Min2(max_creditor.amount, max_debtor.amount)
       IN IF Significant(settlement_amount)
             /\ {debtor_id, creditor_id} \ DOMAIN member_map # {}
          THEN Raise  \* member_map[...] raises KeyError
          ELSE LET cred1 == Subtract(cred_amounts, creditor_id, settlement_amount)
                   debt1 == Subtract(debt_amounts, debtor_id, settlement_amount)
                   need == {p \in NoisePaths(cred1) \cup NoisePaths(debt1) :
                               \A s \in {-1, 0, 1} : <<p, s>> \notin fpNoise}
               IN /\ \E ch \in [need -> {-1, 0, 1}] :
                        /\ \A p \in need : ch[p] \in SignsOf(p)
                        /\ fpNoise' = fpNoise \cup {<<p, ch[p]>> : p \in need}
                  /\ settlements' =
                        IF Significant(settlement_amount)
                        THEN Append(settlements,
                                    Settlement(member_map[debtor_id],
                                               member_map[creditor_id],
                                               settlement_amount))
                        ELSE settlements
                  /\ cred_amounts' =
                        IF Settled(EntryOf(cred1, creditor_id), fpNoise')
                        THEN Delete(cred1, creditor_id) ELSE cred1
                  /\ debt_amounts' =
                        IF Settled(EntryOf(debt1, debtor_id), fpNoise')
                        THEN Delete(debt1, debtor_id) ELSE debt1
                  /\ call' = [call EXCEPT !.iterations = @ + 1]
                  /\ UNCHANGED <<groups, drawn, fpTie, pc, member_map,
                                 ret, prev, again, tasks>>

\* the while loop ends: _generate_settlements and simplify_debts return
SimplifyReturn ==
    /\ pc = "loop"
    /\ (cred_amounts = <<>> \/ debt_amounts = <<>>)
    /\ Return(call.op, call.gid,
              Wrap(call.op, SettlementPlan(groups[call.gid], settlements)), prev)
    /\ pc' = "idle"
    /\ call' = NoCall
    /\ member_map' = <<>>
    /\ cred_amounts' = <<>>
    /\ debt_amounts' = <<>>
    /\ settlements' = <<>>
    /\ groups' = [groups EXCEPT ![call.gid] = Untouched(@)]
    /\ UNCHANGED <<drawn, fpTie, fpNoise, tasks>>

Next ==
    \/ \E gid \in DOMAIN groups : CalculateBalances(gid)
    \/ \E gid \in DOMAIN groups : GetNetBalances(gid)
    \/ \E gid \in DOMAIN groups : SimplifyDebts(gid)
    \/ SettleStep
    \/ SimplifyReturn

Spec == Init /\ [][Next]_vars

SpecWide == InitWide /\ [][Next]_vars

SpecLoose == InitLoose /\ [][Next]_vars

SpecTie == InitTie /\ [][Next]_vars

\* a call that entered the while loop keeps running: the next iteration is
\* taken while both dicts are non-empty, the return when one is empty
SpecFair ==
    Init /\ [][Next]_vars /\ WF_vars(SettleStep) /\ WF_vars(SimplifyReturn)

(***************************************************************************)
(* GroupService: the calls that change the stored groups.  uuid4 is a     *)
(* fresh id: the next number for members and expenses, an id not drawn    *)
(* before for groups.                                                      *)
(***************************************************************************)
MemberNames == {"Alice"}

\* mutant: pop() without the index drops the last element
PopLast(list, i) == SubSeq(list, 1, Len(list) - 1)

\* list.pop(i)
Pop(list, i) == [j \in 1..(Len(list) - 1) |-> IF j < i THEN list[j] ELSE list[j + 1]]

\* the first index whose element has the id, 0 when there is none
IndexOfId(list, id) ==
    IF \E i \in 1..Len(list) : list[i].id = id
    THEN CHOOSE i \in 1..Len(list) :
             list[i].id = id /\ \A j \in 1..(i - 1) : list[j].id # id
    ELSE 0

\* a service call that runs no loop returns
ServiceReturn(op, gid, val) ==
    /\ pc = "idle"
    /\ Return(op, gid, val, ret)
    /\ UNCHANGED <<fpTie, fpNoise, LoopVars, tasks>>

\* GroupService.create_group(group_data)
CreateGroup(gid, name) ==
    /\ gid \notin drawn.groups
    /\ groups' = (gid :> Group(gid, name, <<>>, <<>>)) @@ groups
    /\ drawn' = [drawn EXCEPT !.groups = @ \cup {gid}]
    /\ ServiceReturn("create_group", gid, Group(gid, name, <<>>, <<>>))

\* GroupService.delete_group(group_id)
DeleteGroup(gid) ==
    /\ groups' = [g \in DOMAIN groups \ {gid} |-> groups[g]]
    /\ ServiceReturn("delete_group", gid, gid \in DOMAIN groups)
    /\ UNCHANGED drawn

\* GroupService.add_member(group_id, member_data)
AddMember(gid, name) ==
    IF gid \notin DOMAIN groups
    THEN /\ ServiceReturn("add_member", gid, None)
         /\ UNCHANGED <<groups, drawn>>
    ELSE /\ drawn.members < ServiceIds
         /\ LET member == Member(drawn.members + 1, name)
            IN /\ groups' = [groups EXCEPT ![gid].members = Append(@, member)]
               /\ ServiceReturn("add_member", gid, Some(member))
         /\ drawn' = [drawn EXCEPT !.members = @ + 1]

\* mutant: the scan of the expenses is missing
HasExpensesNever(group, member_id) == FALSE

\* mutant: only the payers are looked at
HasExpensesAsPayer(group, member_id) ==
    \E i \in 1..Len(group.expenses) : group.expenses[i].payer_id = member_id

\* is the member the payer or a participant of an expense of the group
HasExpenses(group, member_id) ==
    \E i \in 1..Len(group.expenses) :
        \/ group.expenses[i].payer_id = member_id
        \/ \E j \in 1..Len(group.expenses[i].participant_ids) :
               group.expenses[i].participant_ids[j] = member_id

\* remove_member returns; the result is kept with the member id asked for
RemoveReturn(gid, member_id, val) ==
    /\ pc = "idle"
    /\ ret' = [op |-> "remove_member", gid |-> gid, val |-> val,
               member_id |-> member_id]
    /\ prev' = NoRet
    /\ again' = IF ret.op = "remove_member" /\ ret.gid = gid
                THEN (IF ret.val = val THEN "same" ELSE "differs")
                ELSE "first"
    /\ UNCHANGED <<fpTie, fpNoise, LoopVars, tasks>>

\* GroupService.remove_member(group_id, member_id)
RemoveMember(gid, member_id) ==
    /\ UNCHANGED drawn
    /\ IF gid \notin DOMAIN groups
       THEN RemoveReturn(gid, member_id, FALSE) /\ UNCHANGED groups
       ELSE IF HasExpenses(groups[gid], member_id)
       THEN RemoveReturn(gid, member_id, FALSE) /\ UNCHANGED groups
       ELSE LET i == IndexOfId(groups[gid].members, member_id)
            IN IF i = 0
               THEN RemoveReturn(gid, member_id, FALSE) /\ UNCHANGED groups
               ELSE /\ groups' = [groups EXCEPT ![gid].members = Pop(@, i)]
                    /\ RemoveReturn(gid, member_id, TRUE)

\* mutant: only the payer is validated
MembersKnownPayerOnly(group, payer_id, participant_ids) ==
    payer_id \in MemberIds(group)

\* add_expense: the payer and every participant are members of the group
MembersKnown(group, payer_id, participant_ids) ==
    /\ payer_id \in MemberIds(group)
    /\ \A j \in 1..Len(participant_ids) :
           participant_ids[j] \in MemberIds(group)

\* GroupService.add_expense(group_id, expense_data); expense_data passed
\* the validation of ExpenseCreate
AddExpense(gid, amount, payer_id, participant_ids) ==
    IF gid \notin DOMAIN groups
    THEN /\ ServiceReturn("add_expense", gid, None)
         /\ UNCHANGED <<groups, drawn>>
    ELSE IF ~MembersKnown(groups[gid], payer_id, participant_ids)
    THEN /\ ServiceReturn("add_expense", gid, None)
         /\ UNCHANGED <<groups, drawn>>
    ELSE /\ drawn.expenses < ServiceIds
         /\ LET expense == Expense(drawn.expenses + 1, amount, payer_id,
                                   participant_ids)
            IN /\ groups' = [groups EXCEPT ![gid].expenses = Append(@, expense)]
               /\ ServiceReturn("add_expense", gid, Some(expense))
         /\ drawn' = [drawn EXCEPT !.expenses = @ + 1]

\* delete_expense returns; the result is kept with the expense id asked for
DeleteReturn(gid, expense_id, val) ==
    /\ pc = "idle"
    /\ ret' = [op |-> "delete_expense", gid |-> gid, val |-> val,
               expense_id |-> expense_id]
    /\ prev' = NoRet
    /\ again' = IF ret.op = "delete_expense" /\ ret.gid = gid
                THEN (IF ret.val = val THEN "same" ELSE "differs")
                ELSE "first"
    /\ UNCHANGED <<fpTie, fpNoise, LoopVars, tasks>>

\* GroupService.delete_expense(group_id, expense_id)
DeleteExpense(gid, expense_id) ==
    /\ UNCHANGED drawn
    /\ IF gid \notin DOMAIN groups
       THEN DeleteReturn(gid, expense_id, FALSE) /\ UNCHANGED groups
       ELSE LET i == IndexOfId(groups[gid].expenses, expense_id)
            IN IF i = 0
               THEN DeleteReturn(gid, expense_id, FALSE) /\ UNCHANGED groups
               ELSE /\ groups' = [groups EXCEPT ![gid].expenses = Pop(@, i)]
                    /\ DeleteReturn(gid, expense_id, TRUE)

\* GroupService.get_group(group_id)
GetGroup(gid) ==
    /\ ServiceReturn("get_group", gid,
                     IF gid \in DOMAIN groups THEN Some(groups[gid]) ELSE None)
    /\ UNCHANGED <<groups, drawn>>

\* the first element of the list with the id, or None
FindById(list, id) ==
    IF IndexOfId(list, id) = 0 THEN None ELSE Some(list[IndexOfId(list, id)])

\* GroupService.get_member(group_id, member_id)
GetMember(gid, member_id) ==
    /\ ServiceReturn("get_member", gid,
                     IF gid \notin DOMAIN groups THEN None
                     ELSE FindById(groups[gid].members, member_id))
    /\ UNCHANGED <<groups, drawn>>

\* GroupService.get_expense(group_id, expense_id)
GetExpense(gid, expense_id) ==
    /\ ServiceReturn("get_expense", gid,
                     IF gid \notin DOMAIN groups THEN None
                     ELSE FindById(groups[gid].expenses, expense_id))
    /\ UNCHANGED <<groups, drawn>>

\* the ids a request can carry: ids the service handed out, or made up
RequestIds == 1..ServiceIds
RequestParticipants ==
    UNION {[1..k -> RequestIds] : k \in 1..ServiceParticipants}

\* GroupService.__init__
InitService ==
    /\ groups = <<>>
    /\ drawn = [groups |-> {}, members |-> 0, expenses |-> 0]
    /\ fpTie = {}
    /\ fpNoise = {}
    /\ pc = "idle"
    /\ call = NoCall
    /\ member_map = <<>>
    /\ cred_amounts = <<>>
    /\ debt_amounts = <<>>
    /\ settlements = <<>>
    /\ ret = NoRet
    /\ prev = NoRet
    /\ again = "none"
    /\ tasks = IdleTasks

NextService ==
    \/ \E gid \in GroupIds : \E name \in {"Trip"} : CreateGroup(gid, name)
    \/ \E gid \in GroupIds : DeleteGroup(gid)
    \/ \E gid \in GroupIds : \E name \in MemberNames : AddMember(gid, name)
    \/ \E gid \in GroupIds : \E member_id \in RequestIds :
           RemoveMember(gid, member_id)
    \/ \E gid \in GroupIds : \E amount \in 1..MaxAmount :
           \E payer_id \in RequestIds :
               \E participant_ids \in RequestParticipants :
                   AddExpense(gid, amount, payer_id, participant_ids)
    \/ \E gid \in GroupIds : \E expense_id \in RequestIds :
           DeleteExpense(gid, expense_id)
    \/ \E gid \in GroupIds : GetBalances(gid)
    \/ \E gid \in GroupIds : GetSettlements(gid)
    \/ Next

SpecService == InitService /\ [][NextService]_vars

\* every GroupService operation that is addressed to a group id; expenses
\* of one amount
NextLookup ==
    \/ \E gid \in GroupIds : \E name \in {"Trip"} : CreateGroup(gid, name)
    \/ \E gid \in GroupIds : DeleteGroup(gid)
    \/ \E gid \in GroupIds : \E name \in MemberNames : AddMember(gid, name)
    \/ \E gid \in GroupIds : \E member_id \in RequestIds :
           RemoveMember(gid, member_id)
    \/ \E gid \in GroupIds : \E payer_id \in RequestIds :
           \E participant_ids \in RequestParticipants :
               AddExpense(gid, MaxAmount, payer_id, participant_ids)
    \/ \E gid \in GroupIds : \E expense_id \in RequestIds :
           DeleteExpense(gid, expense_id)
    \/ \E gid \in GroupIds : GetGroup(gid)
    \/ \E gid \in GroupIds : \E member_id \in RequestIds : GetMember(gid, member_id)
    \/ \E gid \in GroupIds : \E expense_id \in RequestIds :
           GetExpense(gid, expense_id)
    \/ \E gid \in GroupIds : GetBalances(gid)
    \/ \E gid \in GroupIds : GetSettlements(gid)
    \/ SettleStep
    \/ SimplifyReturn

SpecLookup == InitService /\ [][NextLookup]_vars

(***************************************************************************)
(* Creating an expense through the API: the request body is validated as   *)
(* an ExpenseCreate, then handed to GroupService.add_expense.  A request   *)
(* amount is any float; the model draws it in quarters of a cent.          *)
(***************************************************************************)
\* request amounts, in units of 1/Scale cent: from minus one cent upwards
RawAmounts == {q * (Scale \div 4) : q \in (0 - 4)..(4 * MaxAmount)}

\* amount: float = Field(..., gt=0)
AmountAccepted(raw) == raw > 0

\* participant_ids: list[UUID] = Field(..., min_length=1)
ParticipantsAccepted(participant_ids) == Len(participant_ids) >= 1

\* round_amount: round(v, 2), in cents; up is the way a float that stands
\* for an exact half cent goes
round_amount(raw, up) ==
    LET q == raw \div Scale
        r == raw % Scale
    IN IF 2 * r < Scale THEN q
       ELSE IF 2 * r > Scale THEN q + 1
       ELSE IF up THEN q + 1 ELSE q

\* POST /groups/{group_id}/expenses: the field constraints are checked,
\* then the validator rounds the amount, then add_expense runs
PostExpense(gid, raw, payer_id, participant_ids) ==
    IF ~(AmountAccepted(raw) /\ ParticipantsAccepted(participant_ids))
    THEN /\ ServiceReturn("post_expense", gid, "422")
         /\ UNCHANGED <<groups, drawn>>
    ELSE \E up \in BOOLEAN :
             AddExpense(gid, round_amount(raw, up), payer_id, participant_ids)

NextApi ==
    \/ \E gid \in GroupIds : \E name \in {"Trip"} : CreateGroup(gid, name)
    \/ \E gid \in GroupIds : \E name \in MemberNames : AddMember(gid, name)
    \/ \E gid \in GroupIds : \E raw \in RawAmounts :
           \E payer_id \in RequestIds :
               \E participant_ids \in RequestParticipants \cup {<<>>} :
                   PostExpense(gid, raw, payer_id, participant_ids)

SpecApi == InitService /\ [][NextApi]_vars

(***************************************************************************)
(* Requests that run at the same time.  The routes are plain functions,    *)
(* which the framework runs on a pool of worker threads, and they share    *)
(* the one GroupService that get_group_service caches; GroupService takes  *)
(* no lock.  A thread can be switched out between any two of the steps     *)
(* below; each step itself reads and writes the stored group at once.      *)
(***************************************************************************)
\* the request of thread t has returned val
Done(t, op, val) ==
    tasks' = [tasks EXCEPT ![t] = [op |-> op, pc |-> "done", val |-> val]]

\* what a step of a concurrent request leaves alone besides the storage
NoCoreCall == UNCHANGED <<fpTie, fpNoise, LoopVars, ret, prev, again>>

\* remove_member, lines 137-144: the lookup and the scan of the expenses
RemoveMemberScan(t, gid, member_id) ==
    /\ tasks[t].op = "none"
    /\ IF gid \notin DOMAIN groups THEN Done(t, "remove_member", FALSE)
       ELSE IF HasExpenses(groups[gid], member_id)
       THEN Done(t, "remove_member", FALSE)
       ELSE tasks' = [tasks EXCEPT ![t] =
                         [op |-> "remove_member", pc |-> "pop", gid |-> gid,
                          member_id |-> member_id]]
    /\ UNCHANGED <<groups, drawn>>
    /\ NoCoreCall

\* remove_member, lines 146-150: the search of the member and the pop
RemoveMemberPop(t) ==
    /\ tasks[t].op = "remove_member"
    /\ tasks[t].pc = "pop"
    /\ LET gid == tasks[t].gid
           i == IndexOfId(groups[gid].members, tasks[t].member_id)
       IN IF i = 0
          THEN Done(t, "remove_member", FALSE) /\ UNCHANGED groups
          ELSE /\ groups' = [groups EXCEPT ![gid].members = Pop(@, i)]
               /\ Done(t, "remove_member", TRUE)
    /\ UNCHANGED drawn
    /\ NoCoreCall

\* add_expense, lines 164-176: the lookup and the check of the member ids
AddExpenseCheck(t, gid, amount, payer_id, participant_ids) ==
    /\ tasks[t].op = "none"
    /\ IF gid \notin DOMAIN groups THEN Done(t, "add_expense", None)
       ELSE IF ~MembersKnown(groups[gid], payer_id, participant_ids)
       THEN Done(t, "add_expense", None)
       ELSE tasks' = [tasks EXCEPT ![t] =
                         [op |-> "add_expense", pc |-> "append", gid |-> gid,
                          amount |-> amount, payer_id |-> payer_id,
                          participant_ids |-> participant_ids]]
    /\ UNCHANGED <<groups, drawn>>
    /\ NoCoreCall

\* add_expense, lines 178-185: the expense is built and appended
AddExpenseAppend(t) ==
    /\ tasks[t].op = "add_expense"
    /\ tasks[t].pc = "append"
    /\ LET expense == Expense(drawn.expenses + 1, tasks[t].amount,
                              tasks[t].payer_id, tasks[t].participant_ids)
       IN /\ groups' = [groups EXCEPT ![tasks[t].gid].expenses = Append(@, expense)]
          /\ Done(t, "add_expense", Some(expense))
    /\ drawn' = [drawn EXCEPT !.expenses = @ + 1]
    /\ NoCoreCall

\* a stored group of one or two members holding at most one expense
InitRace ==
    \E n \in 1..ServiceIds : \E k \in 0..1 :
        \E list \in [1..k -> WellFormedExpenses(n)] : InitWith(GroupOf(n, list))

\* one thread runs remove_member while another runs add_expense
NextRace ==
    \/ \E gid \in GroupIds : \E member_id \in RequestIds :
           RemoveMemberScan("t1", gid, member_id)
    \/ RemoveMemberPop("t1")
    \/ \E gid \in GroupIds : \E amount \in 1..MaxAmount :
           \E payer_id \in RequestIds :
               \E participant_ids \in RequestParticipants :
                   AddExpenseCheck("t2", gid, amount, payer_id, participant_ids)
    \/ AddExpenseAppend("t2")

SpecRace == InitRace /\ [][NextRace]_vars

(***************************************************************************)
(* A calculation that runs while another thread adds a member and then an  *)
(* expense.  The calculation in flight is the one of pc and call, taken    *)
(* step by step: every step reads group.members and group.expenses as they *)
(* are stored at that moment.                                              *)
(***************************************************************************)
\* the rest of the state a step of the thread that adds leaves alone
WriterFrame == UNCHANGED <<fpTie, fpNoise, LoopVars, ret, prev, again>>

\* GroupService.add_member on another thread
WriterAddMember(t, gid, name) ==
    /\ tasks[t].op = "none"
    /\ IF gid \notin DOMAIN groups
       THEN Done(t, "add_member", None) /\ UNCHANGED <<groups, drawn>>
       ELSE LET member == Member(drawn.members + 1, name)
            IN /\ groups' = [groups EXCEPT ![gid].members = Append(@, member)]
               /\ drawn' = [drawn EXCEPT !.members = @ + 1]
               /\ tasks' = [tasks EXCEPT ![t] =
                               [op |-> "add_member", pc |-> "added", gid |-> gid,
                                val |-> Some(member)]]
    /\ WriterFrame

\* GroupService.add_expense on the same thread, after add_member returned
WriterAddExpense(t, payer_id, participant_ids) ==
    /\ tasks[t].op = "add_member"
    /\ tasks[t].pc = "added"
    /\ LET gid == tasks[t].gid
       IN IF ~MembersKnown(groups[gid], payer_id, participant_ids)
          THEN Done(t, "add_expense", None) /\ UNCHANGED <<groups, drawn>>
          ELSE LET expense == Expense(drawn.expenses + 1, MaxAmount, payer_id,
                                      participant_ids)
               IN /\ groups' = [groups EXCEPT ![gid].expenses = Append(@, expense)]
                  /\ drawn' = [drawn EXCEPT !.expenses = @ + 1]
                  /\ Done(t, "add_expense", Some(expense))
    /\ WriterFrame

\* what a step of the calculation leaves alone: it writes nothing stored
ReaderFrame == UNCHANGED <<groups, drawn, tasks>>

\* get_balances, lines 239-243: the lookup, then calculate_balances starts
TornGetBalances(gid) ==
    IF gid \notin DOMAIN groups THEN NotFound("get_balances", gid)
    ELSE /\ pc = "idle"
         /\ pc' = "keys"
         /\ call' = [op |-> "get_balances", gid |-> gid, iterations |-> 0]
         /\ ReaderFrame
         /\ UNCHANGED <<fpTie, fpNoise, member_map, cred_amounts, debt_amounts,
                        settlements, ret, prev, again>>

\* get_settlements and simplify_debts, lines 42-51: the lookup, the early
\* return, member_map; then get_net_balances starts
TornGetSettlements(gid) ==
    IF gid \notin DOMAIN groups THEN NotFound("get_settlements", gid)
    ELSE /\ pc = "idle"
         /\ ReaderFrame
         /\ LET group == groups[gid]
            IN IF Len(group.members) = 0 \/ Len(group.expenses) = 0
               THEN /\ Return("get_settlements", gid,
                              Some(SettlementPlan(group, <<>>)), ret)
                    /\ UNCHANGED <<fpTie, fpNoise, LoopVars>>
               ELSE /\ member_map' = MemberMap(group)
                    /\ pc' = "keys"
                    /\ call' = [op |-> "get_settlements", gid |-> gid,
                                iterations |-> 0]
                    /\ UNCHANGED <<fpTie, fpNoise, cred_amounts, debt_amounts,
                                   settlements, ret, prev, again>>

\* the call in flight has its balances: get_balances returns them,
\* simplify_debts goes on to the creditors, the debtors and the loop
TornFinish(balances) ==
    IF call.op = "get_balances"
    THEN /\ Return("get_balances", call.gid, Some(balances), ret)
         /\ pc' = "idle"
         /\ call' = NoCall
         /\ UNCHANGED <<member_map, cred_amounts, debt_amounts, settlements>>
    ELSE LET net_balances == [i \in 1..Len(balances) |->
                                 <<balances[i].member_id, balances[i].net_balance>>]
         IN /\ cred_amounts' = SortedDesc(Creditors(net_balances))
            /\ debt_amounts' = SortedDesc(Debtors(net_balances))
            /\ settlements' = StartSettlements
            /\ pc' = "loop"
            /\ UNCHANGED <<call, member_map, ret, prev, again>>

\* calculate_balances, lines 28-35: the early return, then the accumulator
\* maps get a key for every member stored now
TornKeys ==
    /\ pc = "keys"
    /\ ReaderFrame
    /\ UNCHANGED <<fpTie, fpNoise>>
    /\ IF Len(groups[call.gid].members) = 0
       THEN TornFinish(<<>>)
       ELSE /\ pc' = "expenses"
            /\ call' = [op |-> call.op, gid |-> call.gid, iterations |-> 0,
                        keys |-> MemberIds(groups[call.gid])]
            /\ UNCHANGED <<member_map, cred_amounts, debt_amounts, settlements,
                           ret, prev, again>>

\* calculate_balances, lines 38-39: the expenses stored now are processed
TornExpenses ==
    /\ pc = "expenses"
    /\ ReaderFrame
    /\ pc' = "balances"
    /\ call' = [op |-> call.op, gid |-> call.gid, iterations |-> 0,
                keys |-> call.keys,
                totals |-> ProcessExpenses(
                               groups[call.gid].expenses,
                               [total_paid |-> [m \in call.keys |-> <<>>],
                                total_owed |-> [m \in call.keys |-> <<>>]])]
    /\ UNCHANGED <<fpTie, fpNoise, member_map, cred_amounts, debt_amounts,
                   settlements, ret, prev, again>>

\* calculate_balances, lines 42-56: one Balance for every member stored
\* now; total_paid[member.id] raises KeyError for a member without a key
TornBalances ==
    /\ pc = "balances"
    /\ LET members == groups[call.gid].members
           t == call.totals
       IN IF \E i \in 1..Len(members) : members[i].id \notin call.keys
          THEN Raise
          ELSE /\ ReaderFrame
               /\ UNCHANGED fpNoise
               /\ LET paths == {t.total_paid[m] : m \in call.keys}
                                   \cup {t.total_owed[m] : m \in call.keys}
                      need == {p \in paths :
                                  /\ IsTie(p)
                                  /\ <<p, TRUE>> \notin fpTie
                                  /\ <<p, FALSE>> \notin fpTie}
                  IN \E up \in SUBSET need :
                         fpTie' = fpTie \cup {<<p, p \in up>> : p \in need}
               /\ TornFinish([i \in 1..Len(members) |->
                                 LET paid == Round2(t.total_paid[members[i].id], fpTie')
                                     owed == Round2(t.total_owed[members[i].id], fpTie')
                                 IN Balance(members[i], paid, owed, paid - owed)])

\* get_balances or get_settlements on one thread, add_member and then
\* add_expense (of the largest amount) on another
NextTorn ==
    \/ \E gid \in GroupIds : TornGetBalances(gid)
    \/ \E gid \in GroupIds : TornGetSettlements(gid)
    \/ TornKeys
    \/ TornExpenses
    \/ TornBalances
    \/ SettleStep
    \/ SimplifyReturn
    \/ \E gid \in GroupIds : \E name \in MemberNames : WriterAddMember("t1", gid, name)
    \/ \E payer_id \in RequestIds : \E participant_ids \in RequestParticipants :
           WriterAddExpense("t1", payer_id, participant_ids)

SpecTorn == InitRace /\ [][NextTorn]_vars

(***************************************************************************)
(* Properties.  A result is read from ret, the value the last completed    *)
(* call returned; no action changes the group behind it afterwards.        *)
(***************************************************************************)
Abs(x) == IF x < 0 THEN 0 - x ELSE x

IsBalancesRet == ret.op = "calculate_balances"
IsPlanRet == ret.op = "simplify_debts"
RetGroup == groups[ret.gid]

RECURSIVE SumNet(_)
SumNet(balances) ==
    IF balances = <<>> THEN 0
    ELSE Head(balances).net_balance + SumNet(Tail(balances))

\* the balances the plan in ret was computed from
PlanBalances == calculate_balances(RetGroup, fpTie)

RECURSIVE Received(_, _)
Received(setts, id) ==
    IF setts = <<>> THEN 0
    ELSE (IF Head(setts).to_member_id = id THEN Head(setts).amount ELSE 0)
         + Received(Tail(setts), id)

RECURSIVE PaidOut(_, _)
PaidOut(setts, id) ==
    IF setts = <<>> THEN 0
    ELSE (IF Head(setts).from_member_id = id THEN Head(setts).amount ELSE 0)
         + PaidOut(Tail(setts), id)

NonZeroBalances(balances) ==
    Cardinality({i \in 1..Len(balances) : balances[i].net_balance # 0})

\* C1 (as claimed): the net balances calculate_balances returns sum to zero
\* within 0.01.
C1_Conservation ==
    IsBalancesRet => Abs(SumNet(ret.val)) <= 1

\* C2 (as claimed): for every member, the settlements received minus the
\* settlements paid in the plan equal the member's net balance within 0.01.
C2_Reconstruction ==
    IsPlanRet =>
        \A i \in 1..Len(PlanBalances) :
            LET b == PlanBalances[i]
                setts == ret.val.settlements
            IN Abs(Received(setts, b.member_id) - PaidOut(setts, b.member_id)
                   - b.net_balance) <= 1

\* C3: every settlement, in the list being built and in every plan
\* returned, has an amount that is a whole number of cents and is more
\* than 0.01.
C3_SettlementAmounts ==
    /\ \A i \in 1..Len(settlements) :
           settlements[i].amount \in Nat /\ settlements[i].amount > 1
    /\ IsPlanRet =>
           \A i \in 1..Len(ret.val.settlements) :
               /\ ret.val.settlements[i].amount \in Nat
               /\ ret.val.settlements[i].amount > 1

\* a plan with a settlement, returned by a run in which a remaining amount
\* of one cent compared above 0.01 and so stayed in the loop
C3_Witness ==
    /\ IsPlanRet
    /\ ret.val.total_transactions >= 1
    /\ \E x \in fpNoise : x[2] = 1 /\ SumSeq(Tail(x[1])) = Head(x[1]) - 1

\* C4 (as claimed): with n members of nonzero net balance the plan has
\* total_transactions <= n - 1.
C4_Minimality ==
    IsPlanRet =>
        ret.val.total_transactions <= NonZeroBalances(PlanBalances) - 1

\* C4 (amended): total_transactions <= n - 1 when some member has a nonzero
\* net balance, and total_transactions = 0 when none has; the settlement
\* list being built never exceeds the bound either.
C4_MinimalityAmended ==
    /\ IsPlanRet =>
           ret.val.total_transactions <= Max2(NonZeroBalances(PlanBalances) - 1, 0)
    /\ pc = "loop" =>
           Len(settlements) <=
               Max2(NonZeroBalances(calculate_balances(groups[call.gid], fpTie)) - 1, 0)

\* a plan that meets the bound: three nonzero balances, two settlements
C4_Witness ==
    /\ IsPlanRet
    /\ NonZeroBalances(PlanBalances) = 3
    /\ ret.val.total_transactions = 2

\* C5: with exactly one expense of amount A among k distinct participants,
\* every participant owes round(A / k, 2), every other member owes 0, the
\* payer has paid A and every other member has paid 0.
C5_EqualSplit ==
    (IsBalancesRet /\ Len(RetGroup.expenses) = 1) =>
        LET e == RetGroup.expenses[1]
            k == Len(e.participant_ids)
            participants == {e.participant_ids[j] : j \in 1..k}
            share == Round2(<<(e.amount * Scale) \div k>>, fpTie)
        IN \A i \in 1..Len(ret.val) :
               LET b == ret.val[i]
               IN /\ b.total_owed = IF b.member_id \in participants THEN share ELSE 0
                  /\ b.total_paid = IF b.member_id = e.payer_id THEN e.amount ELSE 0

\* one expense of 0.02 split three ways by a payer who takes no part: each
\* participant owes 0.01 and a member outside it owes nothing
C5_Witness ==
    /\ IsBalancesRet
    /\ Len(RetGroup.expenses) = 1
    /\ RetGroup.expenses[1].amount = 2
    /\ Len(RetGroup.expenses[1].participant_ids) = 2
    /\ \E i \in 1..Len(ret.val) :
           /\ ret.val[i].total_owed = 0
           /\ ret.val[i].total_paid = 2
    /\ \E i \in 1..Len(ret.val) : ret.val[i].total_owed = 1

\* C6: calculate_balances returns one Balance per member, in member order,
\* with the member's id and name (so the empty list for no members), and
\* only zeros when the group has no expenses.
C6_OnePerMember ==
    IsBalancesRet =>
        /\ Len(ret.val) = Len(RetGroup.members)
        /\ \A i \in 1..Len(ret.val) :
               /\ ret.val[i].member_id = RetGroup.members[i].id
               /\ ret.val[i].member_name = RetGroup.members[i].name
               /\ Len(RetGroup.expenses) = 0 =>
                      /\ ret.val[i].total_paid = 0
                      /\ ret.val[i].total_owed = 0
                      /\ ret.val[i].net_balance = 0

\* balances of three members with differing figures
C6_Witness ==
    /\ IsBalancesRet
    /\ Len(ret.val) = 3
    /\ ret.val[1].net_balance # ret.val[2].net_balance
    /\ ret.val[2].net_balance # ret.val[3].net_balance

\* C7: the plan carries the group's id and name and total_transactions is
\* the number of its settlements; a group with no members or no expenses
\* gets no settlement and total_transactions = 0.
C7_PlanShape ==
    IsPlanRet =>
        /\ ret.val.group_id = RetGroup.id
        /\ ret.val.group_name = RetGroup.name
        /\ ret.val.total_transactions = Len(ret.val.settlements)
        /\ (Len(RetGroup.members) = 0 \/ Len(RetGroup.expenses) = 0) =>
               /\ ret.val.settlements = <<>>
               /\ ret.val.total_transactions = 0

\* the plan of a group that has members and no expenses
C7_Witness ==
    /\ IsPlanRet
    /\ Len(RetGroup.members) > 0
    /\ Len(RetGroup.expenses) = 0
    /\ ret.val.total_transactions = 0

\* C8: a call repeated on the same group with no call of another kind in
\* between returns what the call before it returned.
C8_Idempotent == again # "differs"

\* simplify_debts called twice in a row, returning the same settlements
C8_Witness ==
    /\ IsPlanRet
    /\ again = "same"
    /\ ret.val.total_transactions >= 1

ReadOps ==
    {"calculate_balances", "get_net_balances", "simplify_debts",
     "get_balances", "get_settlements"}

\* C9: a step of calculate_balances, get_net_balances, simplify_debts,
\* get_balances or get_settlements (one that returns from such a call, or
\* one inside the settlement loop) leaves every stored group as it was:
\* the same members, the same expenses with the same amount, payer and
\* participants.
C9_Frame ==
    [][(ret'.op \in ReadOps \/ pc' # "idle") => groups' = groups]_vars

\* get_settlements returned a plan with a settlement for a stored group
\* that still holds its expenses
C9_Witness ==
    /\ ret.op = "get_settlements"
    /\ ret.val # None
    /\ ret.val[1].total_transactions >= 1
    /\ ret.gid \in DOMAIN groups
    /\ Len(groups[ret.gid].expenses) >= 1

\* C10: no call of the core raises, whatever expenses the group holds, and
\* every id in the settlement loop is a key of member_map.
C10_NeverRaises ==
    /\ pc # "error"
    /\ \A i \in 1..Len(cred_amounts) : cred_amounts[i].id \in DOMAIN member_map
    /\ \A i \in 1..Len(debt_amounts) : debt_amounts[i].id \in DOMAIN member_map

\* a plan with a settlement for a group holding an expense without
\* participants and an expense whose participants include a non-member
C10_Witness ==
    /\ IsPlanRet
    /\ ret.val.total_transactions >= 1
    /\ \E i \in 1..Len(RetGroup.expenses) :
           Len(RetGroup.expenses[i].participant_ids) = 0
    /\ \E i \in 1..Len(RetGroup.expenses) :
           \E j \in 1..Len(RetGroup.expenses[i].participant_ids) :
               RetGroup.expenses[i].participant_ids[j] = UnknownId

\* C11: add_expense returns None and leaves the stored groups as they were,
\* or returns the expense, whose payer and participants are all members of
\* the group, and has appended it to the end of the group's expense list,
\* the member list staying the same.
C11_AddExpenseValidates ==
    [][ret'.op = "add_expense" =>
          \/ ret'.val = None /\ groups' = groups
          \/ /\ ret'.val # None
             /\ ret'.gid \in DOMAIN groups
             /\ LET expense == ret'.val[1]
                    group == groups[ret'.gid]
                IN /\ expense.payer_id \in MemberIds(group)
                   /\ \A j \in 1..Len(expense.participant_ids) :
                          expense.participant_ids[j] \in MemberIds(group)
                   /\ groups' = [groups EXCEPT ![ret'.gid].expenses =
                                     Append(@, expense)]]_vars

\* add_expense rejected a request for a stored group that already holds an
\* accepted expense: the payer or a participant of the request is no member
C11_Witness ==
    /\ ret.op = "add_expense"
    /\ ret.val = None
    /\ ret.gid \in DOMAIN groups
    /\ Len(groups[ret.gid].expenses) >= 1

\* the member is the payer or one of the participants of an expense
TakesPart(group, member_id) ==
    \E i \in 1..Len(group.expenses) :
        LET e == group.expenses[i]
        IN member_id \in {e.payer_id} \cup
               {e.participant_ids[j] : j \in 1..Len(e.participant_ids)}

\* C12: remove_member asked for a member who is the payer or a participant
\* of an expense of the group returns False; whenever it returns False the
\* stored groups are as they were; whenever it returns True the member
\* was a member of the group, appeared in no expense, and has been removed,
\* nothing else changing.
C12_RemoveMember ==
    [][ret'.op = "remove_member" =>
          LET gid == ret'.gid
              member_id == ret'.member_id
          IN /\ (gid \in DOMAIN groups /\ TakesPart(groups[gid], member_id))
                    => ret'.val = FALSE
             /\ ret'.val = FALSE => groups' = groups
             /\ ret'.val = TRUE =>
                    /\ gid \in DOMAIN groups
                    /\ member_id \in MemberIds(groups[gid])
                    /\ ~TakesPart(groups[gid], member_id)
                    /\ member_id \notin MemberIds(groups'[gid])
                    /\ groups' = [groups EXCEPT ![gid].members =
                                      Pop(@, IndexOfId(@, member_id))]]_vars

\* remove_member refused to remove a member who takes part in an expense,
\* and the member is still there
C12_Witness ==
    /\ ret.op = "remove_member"
    /\ ret.val = FALSE
    /\ ret.gid \in DOMAIN groups
    /\ ret.member_id \in MemberIds(groups[ret.gid])
    /\ TakesPart(groups[ret.gid], ret.member_id)

\* C13 (as claimed): every expense stored in a group has an amount that is
\* a whole number of cents and strictly positive, and at least one
\* participant.
C13_AcceptedAmounts ==
    \A gid \in DOMAIN groups :
        \A i \in 1..Len(groups[gid].expenses) :
            /\ groups[gid].expenses[i].amount \in Nat
            /\ groups[gid].expenses[i].amount > 0
            /\ Len(groups[gid].expenses[i].participant_ids) >= 1

\* the positions of the members with net balance > 0.01, and < -0.01
CreditorsOf(balances) == {i \in 1..Len(balances) : balances[i].net_balance > 1}
DebtorsOf(balances) == {i \in 1..Len(balances) : balances[i].net_balance < -1}

\* C14: when exactly one member has a net balance > 0.01 and exactly one has
\* a net balance < -0.01, the plan is one settlement, from the latter to the
\* former, of the smaller of the credit and the absolute debt.
C14_SinglePair ==
    (/\ IsPlanRet
     /\ Cardinality(CreditorsOf(PlanBalances)) = 1
     /\ Cardinality(DebtorsOf(PlanBalances)) = 1) =>
        LET c == PlanBalances[CHOOSE i \in CreditorsOf(PlanBalances) : TRUE]
            d == PlanBalances[CHOOSE i \in DebtorsOf(PlanBalances) : TRUE]
        IN /\ ret.val.total_transactions = 1
           /\ ret.val.settlements =
                  <<[from_member_id |-> d.member_id,
                     from_member_name |-> d.member_name,
                     to_member_id |-> c.member_id,
                     to_member_name |-> c.member_name,
                     amount |-> Min2(c.net_balance, 0 - d.net_balance)]>>

\* the chain A pays 0.03 for B, B pays 0.03 for C: A is owed 0.03, B is
\* even, C owes 0.03, and the plan is the single settlement C to A of 0.03
C14_Witness ==
    /\ IsPlanRet
    /\ Len(PlanBalances) = 3
    /\ PlanBalances[1].net_balance = 3
    /\ PlanBalances[2].net_balance = 0
    /\ PlanBalances[2].total_paid = 3
    /\ PlanBalances[3].net_balance = -3
    /\ Len(ret.val.settlements) = 1
    /\ ret.val.settlements[1].from_member_id = 3
    /\ ret.val.settlements[1].to_member_id = 1
    /\ ret.val.settlements[1].amount = 3

\* the operations of GroupService that are addressed to a group id, and
\* those of them that report with a boolean
GroupOps ==
    {"get_group", "add_member", "get_member", "add_expense", "get_expense",
     "get_balances", "get_settlements", "delete_group", "remove_member",
     "delete_expense"}
BoolOps == {"delete_group", "remove_member", "delete_expense"}

\* C15: an operation addressed to a group id that is not in storage returns
\* None (False for delete_group, remove_member and delete_expense) and
\* leaves the stored groups as they were; an id whose group was deleted
\* never comes back into storage, so this holds for every later operation
\* on it.
C15_UnknownGroup ==
    [][/\ (ret'.op \in GroupOps /\ ret'.gid \notin DOMAIN groups) =>
              /\ groups' = groups
              /\ ret'.op \in BoolOps => ret'.val = FALSE
              /\ ret'.op \notin BoolOps => ret'.val = <<>>
       /\ \A gid \in drawn.groups \ DOMAIN groups : gid \notin DOMAIN groups']_vars

\* add_member on the id of a group that delete_group removed earlier
C15_Witness ==
    /\ ret.op = "add_member"
    /\ ret.gid \in drawn.groups \ DOMAIN groups
    /\ ret.val = <<>>

\* what the expenses credit to member m: the amounts of those m paid
RECURSIVE PaidBy(_, _)
PaidBy(expenses, m) ==
    IF expenses = <<>> THEN 0
    ELSE (IF Head(expenses).payer_id = m THEN Head(expenses).amount ELSE 0)
         + PaidBy(Tail(expenses), m)

\* what the expenses debit to member m, in order: for each expense, once
\* per listing of m among its participants, amount / (number of listed
\* participants), in units of 1/Scale cent
RECURSIVE SharesOf(_, _)
SharesOf(expenses, m) ==
    IF expenses = <<>> THEN <<>>
    ELSE LET e == Head(expenses)
             k == Len(e.participant_ids)
             listed == Cardinality({j \in 1..k : e.participant_ids[j] = m})
         IN [j \in 1..listed |-> (e.amount * Scale) \div k]
            \o SharesOf(Tail(expenses), m)

\* C16: whatever ids the expenses carry, a member's total_paid is the sum
\* of the amounts of the expenses the member paid, and the member's
\* total_owed is the rounded sum, over the expenses that list the member,
\* of amount / (number of listed participants, unknown ones included): an
\* unknown payer or participant changes no member's contribution from that
\* expense or from any other.
C16_UnknownIdsSkipped ==
    IsBalancesRet =>
        \A i \in 1..Len(ret.val) :
            LET b == ret.val[i]
            IN /\ b.total_paid = PaidBy(RetGroup.expenses, b.member_id)
               /\ b.total_owed =
                      Round2(SharesOf(RetGroup.expenses, b.member_id), fpTie)

\* balances of a group whose expense of 0.02 is paid by a non-member and
\* shared by a member and a non-member: the member owes 0.01, nobody paid
C16_Witness ==
    /\ IsBalancesRet
    /\ \E i \in 1..Len(RetGroup.expenses) :
           RetGroup.expenses[i].payer_id = UnknownId
    /\ \E i \in 1..Len(RetGroup.expenses) :
           /\ RetGroup.expenses[i].participant_ids = <<1, UnknownId>>
           /\ RetGroup.expenses[i].amount = 2
    /\ Len(RetGroup.expenses) = 1
    /\ ret.val[1].total_owed = 1
    /\ ret.val[1].total_paid = 0

HasParticipants(expense) == Len(expense.participant_ids) > 0

\* C17: in a group that holds an expense without participants, the call
\* returns (no division by zero), every member's total_owed is what the
\* expenses that have participants give, and every member's total_paid
\* counts the amounts of all the expenses the member paid, those without
\* participants included.
C17_EmptyParticipants ==
    /\ pc # "error"
    /\ (/\ IsBalancesRet
        /\ \E i \in 1..Len(RetGroup.expenses) :
               ~HasParticipants(RetGroup.expenses[i])) =>
           \A i \in 1..Len(ret.val) :
               LET b == ret.val[i]
               IN /\ b.total_owed =
                         Round2(SharesOf(SelectSeq(RetGroup.expenses, HasParticipants),
                                         b.member_id), fpTie)
                  /\ b.total_paid = PaidBy(RetGroup.expenses, b.member_id)

\* balances of a group whose only expense has no participants and was paid
\* by a member: the payer is credited with the amount and nobody owes
C17_Witness ==
    /\ IsBalancesRet
    /\ Len(RetGroup.expenses) = 1
    /\ ~HasParticipants(RetGroup.expenses[1])
    /\ RetGroup.expenses[1].payer_id = 1
    /\ Len(ret.val) = 2
    /\ ret.val[1].total_paid = RetGroup.expenses[1].amount
    /\ ret.val[1].total_owed = 0
    /\ ret.val[2].total_owed = 0

\* the ids of the members of the group whose net balance is within 0.01
WithinTolerance(balances) ==
    {balances[i].member_id :
        i \in {j \in 1..Len(balances) : Abs(balances[j].net_balance) <= 1}}

IdsIn(setts) ==
    {setts[i].from_member_id : i \in 1..Len(setts)}
        \cup {setts[i].to_member_id : i \in 1..Len(setts)}

\* C18: a member whose net balance is within 0.01 of zero is neither payer
\* nor receiver of a settlement of the plan, and is never among the
\* creditors or debtors the loop works on; so when every member is within
\* 0.01 the plan has no settlement.
C18_WithinToleranceSkipped ==
    /\ IsPlanRet =>
           /\ IdsIn(ret.val.settlements) \cap WithinTolerance(PlanBalances) = {}
           /\ WithinTolerance(PlanBalances) = MemberIds(RetGroup) =>
                  ret.val.total_transactions = 0
    /\ pc = "loop" =>
           LET within == WithinTolerance(calculate_balances(groups[call.gid], fpTie))
           IN /\ IdsIn(settlements) \cap within = {}
              /\ \A i \in 1..Len(cred_amounts) : cred_amounts[i].id \notin within
              /\ \A i \in 1..Len(debt_amounts) : debt_amounts[i].id \notin within

\* a plan with a settlement for a group in which a member owes exactly 0.01
C18_Witness ==
    /\ IsPlanRet
    /\ ret.val.total_transactions >= 1
    /\ \E i \in 1..Len(PlanBalances) : PlanBalances[i].net_balance = -1

\* the ids and the remaining amounts of a dict, in dict order
Remaining(dict) == [k \in 1..Len(dict) |-> <<dict[k].id, dict[k].amount>>]

Without(list, i) ==
    [k \in 1..(Len(list) - 1) |-> IF k < i THEN list[k] ELSE list[k + 1]]

\* after is before with amount a taken from entry i, the entry dropped or
\* kept: it can be dropped only at 0.01 or less and kept only at 0.01 or more
\* (at exactly one cent the float decides)
TakenFrom(before, after, i, a) ==
    LET reduced == [Remaining(before) EXCEPT ![i] = <<@[1], @[2] - a>>]
    IN \/ Remaining(after) = reduced /\ reduced[i][2] >= 1
       \/ Remaining(after) = Without(reduced, i) /\ reduced[i][2] <= 1

\* C19: every iteration of the settlement loop takes a creditor whose
\* remaining credit no other creditor exceeds and a debtor whose remaining
\* debt no other debtor exceeds, takes the smaller of the two amounts, in
\* whole cents, from both, and emits the settlement from that debtor to
\* that creditor for that amount when it is more than 0.01.
C19_GreedyStep ==
    [][(/\ pc = "loop"
        /\ pc' = "loop"
        /\ <<cred_amounts, debt_amounts>>' # <<cred_amounts, debt_amounts>>) =>
           \E ci \in 1..Len(cred_amounts) : \E di \in 1..Len(debt_amounts) :
               LET c == cred_amounts[ci]
                   d == debt_amounts[di]
                   a == IF c.amount <= d.amount THEN c.amount ELSE d.amount
               IN /\ \A k \in 1..Len(cred_amounts) : cred_amounts[k].amount <= c.amount
                  /\ \A k \in 1..Len(debt_amounts) : debt_amounts[k].amount <= d.amount
                  /\ TakenFrom(cred_amounts, cred_amounts', ci, a)
                  /\ TakenFrom(debt_amounts, debt_amounts', di, a)
                  /\ settlements' =
                         IF a > 1
                         THEN Append(settlements,
                                     [from_member_id |-> d.id,
                                      from_member_name |-> member_map[d.id].name,
                                      to_member_id |-> c.id,
                                      to_member_name |-> member_map[c.id].name,
                                      amount |-> a])
                         ELSE settlements]_vars

\* after the first iteration: the larger debtor has paid and is gone, the
\* smaller debtor is still waiting with its whole debt
C19_Witness ==
    /\ pc = "loop"
    /\ Len(settlements) = 1
    /\ Len(cred_amounts) = 1
    /\ Len(debt_amounts) = 1
    /\ Len(debt_amounts[1].path) = 1
    /\ debt_amounts[1].amount < settlements[1].amount
    /\ settlements[1].from_member_id # debt_amounts[1].id

Ids(dict) == {dict[k].id : k \in 1..Len(dict)}

\* C20: every iteration of the settlement loop removes the selected
\* creditor or the selected debtor (or both), adds no party, and leaves
\* among the remaining parties none with 0.00 or less: the number of
\* remaining parties strictly decreases.
C20_OneSideClears ==
    [][(/\ pc = "loop"
        /\ pc' \in {"loop", "error"}
        /\ vars' # vars) =>
           /\ pc' = "loop"
           /\ Ids(cred_amounts') \subseteq Ids(cred_amounts)
           /\ Ids(debt_amounts') \subseteq Ids(debt_amounts)
           /\ Len(cred_amounts') + Len(debt_amounts')
                  < Len(cred_amounts) + Len(debt_amounts)
           /\ \A k \in 1..Len(cred_amounts') : cred_amounts'[k].amount >= 1
           /\ \A k \in 1..Len(debt_amounts') : debt_amounts'[k].amount >= 1]_vars

\* inside the loop after an iteration that cleared the debtor and left the
\* creditor with 0.02 or more still to receive from another debtor
C20_Witness ==
    /\ pc = "loop"
    /\ Len(settlements) >= 1
    /\ debt_amounts # <<>>
    /\ \E k \in 1..Len(cred_amounts) :
           Len(cred_amounts[k].path) > 1 /\ cred_amounts[k].amount >= 2

\* the creditors and debtors the call in flight started from
PartiesAtStart ==
    LET balances == calculate_balances(groups[call.gid], fpTie)
    IN Cardinality(CreditorsOf(balances)) + Cardinality(DebtorsOf(balances))

LoopEnded == cred_amounts = <<>> \/ debt_amounts = <<>>

\* C21 (as claimed): when the loop has ended it has run at most
\* (creditors + debtors - 1) iterations.
C21_Terminates ==
    (pc = "loop" /\ LoopEnded) => call.iterations <= PartiesAtStart - 1

\* C21 (amended): every call that enters the settlement loop leaves it and
\* returns; when the loop has ended it has run at most
\* (creditors + debtors - 1) iterations, none when there is no creditor and
\* no debtor, and while it runs it has run fewer.
C21_TerminatesAmended ==
    /\ [](pc = "loop" =>
             IF LoopEnded
             THEN call.iterations <= Max2(PartiesAtStart - 1, 0)
             ELSE call.iterations < PartiesAtStart - 1)
    /\ (pc = "loop" ~> (pc = "idle" /\ ret.op = "simplify_debts"))

\* the loop has ended after two iterations on three parties
C21_Witness ==
    /\ pc = "loop"
    /\ LoopEnded
    /\ PartiesAtStart = 3
    /\ call.iterations = 2

\* what the expenses debit to member m, exactly, in units of 1/Scale cent:
\* for each expense (times m is listed) * amount / (length of the list)
RECURSIVE ExactOwed(_, _)
ExactOwed(expenses, m) ==
    IF expenses = <<>> THEN 0
    ELSE LET e == Head(expenses)
             k == Len(e.participant_ids)
             times == Cardinality({j \in 1..k : e.participant_ids[j] = m})
         IN (IF k = 0 THEN 0 ELSE (times * e.amount * Scale) \div k)
            + ExactOwed(Tail(expenses), m)

\* add_expense, asked to store an expense of 0.01 paid by m and shared by
\* m and m again, stores it with the list as given
AcceptsTwice(gid, m) ==
    /\ AddExpense(gid, 1, m, <<m, m>>)
    /\ ret'.val # None
    /\ groups'[gid].expenses =
           Append(groups[gid].expenses, Expense(drawn.expenses + 1, 1, m, <<m, m>>))

\* C22: the balances returned for a stored group give every member a
\* total_owed that is, to the nearest cent, the sum over the expenses of
\* (times the member is listed) * amount / (length of the participant
\* list); and add_expense accepts a participant list that names the same
\* member twice whenever it would accept an expense at all.
C22_NoDeduplication ==
    /\ (ret.op = "get_balances" /\ ret.val # None /\ ret.gid \in DOMAIN groups) =>
           \A i \in 1..Len(ret.val[1]) :
               LET b == ret.val[1][i]
               IN 2 * Abs(b.total_owed * Scale
                          - ExactOwed(groups[ret.gid].expenses, b.member_id))
                      <= Scale
    /\ \A gid \in DOMAIN groups : \A m \in MemberIds(groups[gid]) :
           (pc = "idle" /\ drawn.expenses < ServiceIds) => ENABLED AcceptsTwice(gid, m)

\* get_balances for a group of two members whose one expense of 0.03 lists
\* member 1 twice: member 1 owes the whole 0.03 and member 2 nothing
C22_Witness ==
    /\ ret.op = "get_balances"
    /\ ret.val # None
    /\ ret.gid \in DOMAIN groups
    /\ Len(groups[ret.gid].expenses) = 1
    /\ groups[ret.gid].expenses[1].participant_ids = <<1, 1>>
    /\ groups[ret.gid].expenses[1].amount = 3
    /\ Len(ret.val[1]) = 2
    /\ ret.val[1][1].total_owed = 3
    /\ ret.val[1][2].total_owed = 0

\* the remaining amounts a plan starts from, computed from balances: the
\* <<id, amount>> pairs of the creditors and of the debtors
CreditPairs(balances) ==
    {<<balances[i].member_id, balances[i].net_balance>> : i \in CreditorsOf(balances)}
DebtPairs(balances) ==
    {<<balances[i].member_id, 0 - balances[i].net_balance>> : i \in DebtorsOf(balances)}
PairsOf(dict) == {<<dict[k].id, dict[k].amount>> : k \in 1..Len(dict)}

\* C23: (a) delete_expense that succeeds right after the add_expense that
\* stored the expense leaves the stored groups exactly as they were before
\* the add; (b) every delete_expense that succeeds removes one expense,
\* after which get_expense finds nothing under its id, and keeps the other
\* expenses in their order and everything else as it was; (c) get_balances
\* returns the balances of the group as it is stored at that moment, and
\* get_settlements starts from the creditors and debtors of those balances
\* with no settlement carried over; (d) what the floats decided once stays
\* decided.  So the balances and the plan after add-then-delete are those
\* from before the add.
C23_ComputedFresh ==
    [][/\ (/\ ret.op = "add_expense"
            /\ ret.val # None
            /\ ret'.op = "delete_expense"
            /\ ret'.val = TRUE
            /\ ret'.gid = ret.gid
            /\ ret'.expense_id = ret.val[1].id) =>
               /\ groups[ret.gid].expenses[Len(groups[ret.gid].expenses)] = ret.val[1]
               /\ groups' = [groups EXCEPT ![ret.gid].expenses =
                                 SubSeq(@, 1, Len(@) - 1)]
       /\ (ret'.op = "delete_expense" /\ ret'.val = TRUE) =>
               /\ ret'.gid \in DOMAIN groups
               /\ \E i \in 1..Len(groups[ret'.gid].expenses) :
                      /\ groups[ret'.gid].expenses[i].id = ret'.expense_id
                      /\ groups' = [groups EXCEPT ![ret'.gid].expenses = Without(@, i)]
               /\ FindById(groups'[ret'.gid].expenses, ret'.expense_id) = None
       /\ (ret'.op = "get_balances" /\ ret'.val # None) =>
               ret'.val[1] = calculate_balances(groups'[ret'.gid], fpTie')
       /\ (pc = "idle" /\ pc' = "loop") =>
               LET balances == calculate_balances(groups'[call'.gid], fpTie')
               IN /\ PairsOf(cred_amounts') = CreditPairs(balances)
                  /\ PairsOf(debt_amounts') = DebtPairs(balances)
                  /\ Len(cred_amounts') = Cardinality(CreditPairs(balances))
                  /\ Len(debt_amounts') = Cardinality(DebtPairs(balances))
                  /\ settlements' = <<>>
       /\ fpTie \subseteq fpTie'
       /\ fpNoise \subseteq fpNoise'
       /\ \A x \in fpTie' : \A y \in fpTie' : x[1] = y[1] => x = y
       /\ \A x \in fpNoise' : \A y \in fpNoise' : x[1] = y[1] => x = y]_vars

\* the second expense of the group was added and then deleted, and the
\* first one is still stored
C23_Witness ==
    /\ ret.op = "delete_expense"
    /\ ret.val = TRUE
    /\ ret.gid \in DOMAIN groups
    /\ drawn.expenses = 2
    /\ Len(groups[ret.gid].expenses) = 1
    /\ groups[ret.gid].expenses[1].id = 1

\* every settlement of the list goes from a member with net balance below
\* -0.01 to a member with net balance above 0.01, in the given balances
Directed(setts, balances) ==
    \A i \in 1..Len(setts) :
        /\ \E j \in 1..Len(balances) :
               /\ balances[j].member_id = setts[i].from_member_id
               /\ balances[j].net_balance < -1
        /\ \E j \in 1..Len(balances) :
               /\ balances[j].member_id = setts[i].to_member_id
               /\ balances[j].net_balance > 1

\* C24: in every plan returned, and in the list being built, every
\* from-member has a net balance below -0.01 and every to-member a net
\* balance above 0.01; no member pays in one settlement and receives in
\* another, and no settlement has the same member on both sides.
C24_Direction ==
    LET OneWay(setts) ==
            /\ {setts[i].from_member_id : i \in 1..Len(setts)}
                   \cap {setts[i].to_member_id : i \in 1..Len(setts)} = {}
            /\ \A i \in 1..Len(setts) :
                   setts[i].from_member_id # setts[i].to_member_id
    IN /\ IsPlanRet =>
              Directed(ret.val.settlements, PlanBalances) /\ OneWay(ret.val.settlements)
       /\ pc = "loop" =>
              /\ Directed(settlements, calculate_balances(groups[call.gid], fpTie))
              /\ OneWay(settlements)

\* a plan of two settlements in which one member pays two others
C24_Witness ==
    /\ IsPlanRet
    /\ Len(ret.val.settlements) = 2
    /\ ret.val.settlements[1].from_member_id = ret.val.settlements[2].from_member_id
    /\ ret.val.settlements[1].to_member_id # ret.val.settlements[2].to_member_id

\* the ids an expense refers to
RefersTo(expense) ==
    {expense.payer_id}
        \cup {expense.participant_ids[j] : j \in 1..Len(expense.participant_ids)}

\* C25: after any sequence of create_group, delete_group, add_member,
\* remove_member, add_expense and delete_expense run one at a time, the
\* payer and every participant of every stored expense is a current member
\* of the group that holds the expense.
C25_ReferentialIntegrity ==
    \A gid \in DOMAIN groups :
        \A i \in 1..Len(groups[gid].expenses) :
            RefersTo(groups[gid].expenses[i]) \subseteq MemberIds(groups[gid])

\* remove_member has removed a member from a group that holds an expense
C25_Witness ==
    /\ ret.op = "remove_member"
    /\ ret.val = TRUE
    /\ ret.gid \in DOMAIN groups
    /\ Len(groups[ret.gid].expenses) >= 1
    /\ Len(groups[ret.gid].members) = 1

\* C26 (as claimed): when remove_member and add_expense, running at the same
\* time on the same group, have both returned, every stored expense refers
\* only to current members of its group.
C26_IntegrityUnderInterleaving ==
    (\A t \in TaskIds : tasks[t].op # "none" /\ tasks[t].pc = "done") =>
        \A gid \in DOMAIN groups :
            \A i \in 1..Len(groups[gid].expenses) :
                RefersTo(groups[gid].expenses[i]) \subseteq MemberIds(groups[gid])

\* C27 (as claimed): a get_balances or get_settlements that runs while
\* another thread adds a member and then an expense always completes: every
\* member it builds a Balance for has a key in the accumulator maps, every
\* creditor and debtor of the loop is a key of member_map, and no KeyError
\* is raised.
C27_CalculationCompletes ==
    /\ pc = "balances" => MemberIds(groups[call.gid]) \subseteq call.keys
    /\ pc = "loop" => Ids(cred_amounts) \cup Ids(debt_amounts) \subseteq DOMAIN member_map
    /\ pc # "error"

\* the net balance of the member in the balances, 0 for a non-member
NetOf(balances, id) ==
    IF \E i \in 1..Len(balances) : balances[i].member_id = id
    THEN balances[CHOOSE i \in 1..Len(balances) : balances[i].member_id = id].net_balance
    ELSE 0

NonIncreasing(setts) ==
    \A i \in 1..(Len(setts) - 1) : setts[i].amount >= setts[i + 1].amount

\* C29: an iteration of the loop leaves the settlements emitted so far in
\* place and adds at most one at the end; the plan returned lists the
\* settlements exactly as the loop left them; and along the list, while it
\* is built and in the plan, no amount is larger than the one before it.
C29_EmissionOrder ==
    [][/\ (pc = "loop" /\ pc' = "loop") =>
              /\ Len(settlements') \in {Len(settlements), Len(settlements) + 1}
              /\ SubSeq(settlements', 1, Len(settlements)) = settlements
       /\ (pc = "loop" /\ pc' = "idle") => ret'.val.settlements = settlements
       /\ NonIncreasing(settlements')
       /\ ret'.op = "simplify_debts" => NonIncreasing(ret'.val.settlements)]_vars

\* a plan of two settlements, the second smaller than the first
C29_Witness ==
    /\ IsPlanRet
    /\ Len(ret.val.settlements) = 2
    /\ ret.val.settlements[1].amount > ret.val.settlements[2].amount

\* the first entry of the dict, in dict order, whose amount in cents no
\* other entry exceeds
FirstMaxCents(dict) ==
    CHOOSE i \in 1..Len(dict) :
        /\ \A k \in 1..Len(dict) : dict[k].amount <= dict[i].amount
        /\ \A k \in 1..(i - 1) : dict[k].amount < dict[i].amount

\* the representation error of an entry: what was decided for its
\* computation, nothing for an amount that was never subtracted from
Residue(e) ==
    IF \E x \in fpNoise : x[1] = e.path
    THEN (CHOOSE x \in fpNoise : x[1] = e.path)[2]
    ELSE 0

Above(e1, e2) ==
    \/ e1.amount > e2.amount
    \/ e1.amount = e2.amount /\ Residue(e1) > Residue(e2)

\* the first entry of the dict whose float amount no other entry exceeds
FirstMaxFloat(dict) ==
    CHOOSE i \in 1..Len(dict) :
        /\ \A k \in 1..Len(dict) : ~Above(dict[k], dict[i])
        /\ \A k \in 1..(i - 1) : Above(dict[i], dict[k])

\* the iteration took the smaller of the two amounts from entry ci of the
\* creditors and entry di of the debtors
Selected(ci, di) ==
    LET a == IF cred_amounts[ci].amount <= debt_amounts[di].amount
             THEN cred_amounts[ci].amount ELSE debt_amounts[di].amount
    IN /\ TakenFrom(cred_amounts, cred_amounts', ci, a)
       /\ TakenFrom(debt_amounts, debt_amounts', di, a)

IsIteration ==
    /\ pc = "loop"
    /\ pc' = "loop"
    /\ <<cred_amounts, debt_amounts>>' # <<cred_amounts, debt_amounts>>

PositionOf(group, id) == CHOOSE i \in 1..Len(group.members) : group.members[i].id = id

\* the dict is ordered by amount descending, equal amounts by the position
\* of the member in the group's member list
InitialOrder(dict, group) ==
    \A i \in 1..Len(dict) : \A j \in (i + 1)..Len(dict) :
        \/ dict[i].amount > dict[j].amount
        \/ /\ dict[i].amount = dict[j].amount
           /\ PositionOf(group, dict[i].id) < PositionOf(group, dict[j].id)

\* C30 (as claimed): every iteration selects, among the creditors whose
\* remaining amount is maximal, the one that comes first in the initial
\* ordering, and likewise among the debtors.
C30_FirstInOrder ==
    [][IsIteration =>
           Selected(FirstMaxCents(cred_amounts), FirstMaxCents(debt_amounts))]_vars

\* C30 (amended): the creditors and the debtors start ordered by amount
\* descending, equal amounts by member position; every iteration selects
\* the first, in that order, of the entries whose remaining float amount is
\* maximal, where two entries that are equal in cents can differ by the
\* representation error of the subtractions behind them; and a call
\* repeated on the same group returns the same plan.
C30_FirstInOrderAmended ==
    /\ [](again # "differs")
    /\ [][/\ IsIteration =>
                 Selected(FirstMaxFloat(cred_amounts), FirstMaxFloat(debt_amounts))
          /\ (pc = "idle" /\ pc' = "loop") =>
                 /\ InitialOrder(cred_amounts', groups[call'.gid])
                 /\ InitialOrder(debt_amounts', groups[call'.gid])]_vars

\* the first settlement went to the first creditor, the second to the
\* second creditor although the first one, still waiting, has the same
\* remaining amount in cents
C30_Witness ==
    /\ pc = "loop"
    /\ Len(settlements) = 2
    /\ Len(cred_amounts) = 1
    /\ settlements[1].to_member_id = cred_amounts[1].id
    /\ settlements[2].to_member_id # cred_amounts[1].id
    /\ settlements[2].amount = cred_amounts[1].amount
    /\ PositionOf(groups[call.gid], cred_amounts[1].id)
           < PositionOf(groups[call.gid], settlements[2].to_member_id)

====
